---- MODULE Spec2Model ----
(***************************************************************************)
(* Roast session recorder of RoastingGraphReact.                           *)
(*                                                                         *)
(* The model follows both revisions of RoastingScreen (wall-clock and      *)
(* tick-count), the App navigation state around them, localStorage, and    *)
(* the pure DTR function.                                                  *)
(* Temperatures are counted in tenths of a degree, times in milliseconds   *)
(* (Date.now()) and whole seconds (the `seconds` state).                   *)
(* An optional value (T | null) is the empty sequence or <<value>>.        *)
(***************************************************************************)
EXTENDS Integers, Sequences, FiniteSets, TLC

VARIABLES
    now,              \* Date.now(), milliseconds
    session,          \* App: SessionData | null
    summary,          \* App: SummaryData | null
    localStorage,     \* window.localStorage: key -> stored value
    mounted,          \* a RoastingScreen is mounted
    isInitialMount,   \* isInitialMount.current: the mount effects have not run yet
    sessionKeyRef,    \* sessionKeyRef.current
    seconds,          \* RoastingScreen state
    isRunning,
    startTime,
    firstCrackTime,
    roastStage,
    temperatureData,
    currentTemp,
    currentTempRef,   \* currentTempRef.current
    intervalRef,      \* intervalRef.current: id | null
    intervals,        \* the browser's active intervals: {[id, startTime]}
    timerSeq,         \* the id the next setInterval returns
    secondsRef,       \* secondsRef.current (tick-count revision)
    revision,         \* which revision of RoastingScreen the build holds
    call,             \* the call of a pure function being evaluated, if any
    mountsLeft,       \* sessions still to be started in this behaviour
    reloadsLeft,      \* page reloads still to come
    backsLeft,        \* times the system clock is still set back
    pressesLeft,      \* button presses (temperature, stop) still to come
    ticksLeft,        \* interval callbacks of the tick-count revision still to fire
    lastOp            \* history: the last operation requested and the stage it met

vars == <<now, session, summary, localStorage, mounted, isInitialMount,
          sessionKeyRef, seconds, isRunning, startTime, firstCrackTime,
          roastStage, temperatureData, currentTemp, currentTempRef,
          intervalRef, intervals, timerSeq, secondsRef, revision, call,
          mountsLeft, reloadsLeft, backsLeft, pressesLeft, ticksLeft, lastOp>>

----------------------------------------------------------------------------
\* Bounds of the model

\* the clock runs over 0 .. MaxNow milliseconds
MaxNow == 2000
\* the clock moves in multiples of Quantum milliseconds
Quantum == 500
\* the temperature buttons are pressed only while the result stays <= MaxTemp (tenths)
MaxTemp == 20
\* charge temperatures entered in the setup form (tenths of a degree)
ChargeLow == 5
ChargeHigh == 20
\* sessions started, times the system clock is set back and temperature
\* button presses in a behaviour of Spec
MaxMounts == 1
MaxClockBacks == 1
MaxPresses == 1
\* button presses in a behaviour of SpecTemp, and interval callbacks of the
\* tick-count revision in a behaviour of SpecTemp and SpecCap
MaxPressesTemp == 3
MaxTicks == 2
\* SpecCap starts CapSlack points below the cap of the series
CapSlack == 1
\* calculateDTR is evaluated on times 0 .. MaxSeconds
MaxSeconds == 300
\* getDTRColor is evaluated on the multiples of 1 / PctScale from -PctOver to
\* 100 + PctOver
PctScale == 4
PctOver == 20
\* page reloads in a behaviour of SpecReload
MaxReloads == 1
\* the setup form is submitted with texts of at most MaxText characters
MaxText == 3

----------------------------------------------------------------------------
\* Program constants

\* Math.floor((Date.now() - startTime) / 1000)
MsPerSecond == 1000
\* newData.length > 3600 ? newData.slice(-3600) : newData
MaxPoints == 3600
\* unit === 'C' ? 1 : 1.8, in tenths of a degree
CelsiusStep == 10
FahrenheitStep == 18

null == <<>>
Some(x) == <<x>>
Val(o) == o[1]

BeanNames == {"Kenya"}
\* the setup forms submitted: charge temperature and unit
Setups == {<<ChargeLow, "C">>, <<ChargeHigh, "F">>}

Max(a, b) == IF a >= b THEN a ELSE b

----------------------------------------------------------------------------
\* localStorage and JSON

\* `roasting_session_${beanName}_${Date.now()}`
SessionKey(beanName, t) == <<"roasting_session", beanName, t>>

getItem(ls, key) == IF key \in DOMAIN ls THEN Some(ls[key]) ELSE null

setItem(ls, key, value) ==
    [k \in DOMAIN ls \cup {key} |-> IF k = key THEN value ELSE ls[k]]

removeItem(ls, key) == [k \in DOMAIN ls \ {key} |-> ls[k]]

\* the JSON value of a number | null field, and the field a JSON value parses to
jsonNullable(o) ==
    IF o = null THEN [type |-> "null", value |-> 0]
    ELSE [type |-> "number", value |-> Val(o)]
parseNullable(j) == IF j.type = "null" THEN null ELSE Some(j.value)

\* JSON text of a SessionState; parsing a text that is not JSON throws
JSONstringify(state) ==
    [json |-> Some([state EXCEPT !.startTime = jsonNullable(@),
                                 !.firstCrackTime = jsonNullable(@)])]
JSONparseThrows(text) == text.json = null
JSONparse(text) ==
    [Val(text.json) EXCEPT !.startTime = parseNullable(@),
                           !.firstCrackTime = parseNullable(@)]
\* a stored text that is not JSON
CorruptText == [json |-> null]

----------------------------------------------------------------------------
\* dtrCalculations: a JavaScript number that is a quotient is kept exact, as
\* the fraction num / den

Frac(n, d) == [num |-> n, den |-> d]
FracEq(a, b) == a.num * b.den = b.num * a.den
\* a <= b, for fractions of any sign of denominator
FracLeq(a, b) ==
    IF (a.den > 0) = (b.den > 0)
    THEN a.num * b.den <= b.num * a.den
    ELSE a.num * b.den >= b.num * a.den

\* mutant of calculateDTR: the share of the time before first crack
calculateDTR_preCrack(firstCrack, totalTime) ==
    IF firstCrack = null \/ totalTime = 0
    THEN Frac(0, 1)
    ELSE Frac(Val(firstCrack) * 100, totalTime)

calculateDTR(firstCrack, totalTime) ==
    IF firstCrack = null \/ totalTime = 0
    THEN Frac(0, 1)
    ELSE LET developmentTime == totalTime - Val(firstCrack)
         IN  Frac(developmentTime * 100, totalTime)

\* SummaryScreen: const dtr = calculateDTR(firstCrackTime, totalTime)
summaryDTR(s) == calculateDTR(s.firstCrackTime, s.totalTime)

\* SummaryScreen: temperatureData[temperatureData.length - 1]?.temperature || chargeTemp
\* (0 is falsy, as is the undefined of an empty series)
finalTemp(s) ==
    LET n == Len(s.temperatureData)
        last == IF n > 0 THEN Some(s.temperatureData[n].temperature) ELSE null
    IN  IF last # null /\ Val(last) # 0 THEN Val(last) ELSE s.chargeTemp

\* a percentage between 0 and 100
IsPercentage(x) == FracLeq(Frac(0, 1), x) /\ FracLeq(x, Frac(100, 1))

\* a string is the sequence of its characters
substring(str, from, to) == SubSeq(str, from + 1, to)

\* the value of a hexadecimal digit, either case; -1 for any other character
digitValue(c) ==
    CASE c = "0" -> 0 [] c = "1" -> 1 [] c = "2" -> 2 [] c = "3" -> 3
      [] c = "4" -> 4 [] c = "5" -> 5 [] c = "6" -> 6 [] c = "7" -> 7
      [] c = "8" -> 8 [] c = "9" -> 9
      [] c \in {"a", "A"} -> 10 [] c \in {"b", "B"} -> 11
      [] c \in {"c", "C"} -> 12 [] c \in {"d", "D"} -> 13
      [] c \in {"e", "E"} -> 14 [] c \in {"f", "F"} -> 15
      [] OTHER -> -1

\* const hex = (x) => parseInt(x, 16), on a string of two hexadecimal digits
hex(x) == 16 * digitValue(x[1]) + digitValue(x[2])

HexDigits ==
    <<"0", "1", "2", "3", "4", "5", "6", "7", "8", "9", "a", "b", "c", "d", "e", "f">>

RECURSIVE digits16(_)
digits16(n) ==
    IF n < 16
    THEN <<HexDigits[n + 1]>>
    ELSE digits16(n \div 16) \o <<HexDigits[(n % 16) + 1]>>

\* Number.prototype.toString(16) of an integer
toString16(n) == IF n < 0 THEN <<"-">> \o digits16(-n) ELSE digits16(n)

\* padStart(2, '0')
padStart2(str) == IF Len(str) < 2 THEN <<"0">> \o str ELSE str

\* Math.round of the quotient num / den, den > 0: halves go up
mathRound(num, den) == (2 * num + den) \div (2 * den)

\* interpolateColor, the ratio being the quotient ratio.num / ratio.den
interpolateColor(color1, color2, ratio) ==
    LET r1 == hex(substring(color1, 1, 3))
        g1 == hex(substring(color1, 3, 5))
        b1 == hex(substring(color1, 5, 7))
        r2 == hex(substring(color2, 1, 3))
        g2 == hex(substring(color2, 3, 5))
        b2 == hex(substring(color2, 5, 7))
        r == mathRound(r1 * ratio.den + (r2 - r1) * ratio.num, ratio.den)
        g == mathRound(g1 * ratio.den + (g2 - g1) * ratio.num, ratio.den)
        b == mathRound(b1 * ratio.den + (b2 - b1) * ratio.num, ratio.den)
    IN  <<"#">> \o padStart2(toString16(r)) \o padStart2(toString16(g))
              \o padStart2(toString16(b))

\* '#DAA06D', '#7B3F00', '#000000'
LightTan == <<"#", "D", "A", "A", "0", "6", "D">>
MediumBrown == <<"#", "7", "B", "3", "F", "0", "0">>
Black == <<"#", "0", "0", "0", "0", "0", "0">>

\* mutant of getDTRColor: the first segment runs over 0-100
getDTRColor_longSegment(dtr) ==
    IF dtr.num = 0
    THEN LightTan
    ELSE IF FracLeq(dtr, Frac(30, 1))
         THEN interpolateColor(LightTan, MediumBrown, Frac(dtr.num, 100 * dtr.den))
         ELSE interpolateColor(MediumBrown, Black,
                               Frac(dtr.num - 30 * dtr.den, 70 * dtr.den))

\* mutant of getDTRColor: the second segment starts from the tan stop again
getDTRColor_restart(dtr) ==
    IF dtr.num = 0
    THEN LightTan
    ELSE IF FracLeq(dtr, Frac(30, 1))
         THEN interpolateColor(LightTan, MediumBrown, Frac(dtr.num, 30 * dtr.den))
         ELSE interpolateColor(LightTan, Black,
                               Frac(dtr.num - 30 * dtr.den, 70 * dtr.den))

\* getDTRColor, dtr being the quotient dtr.num / dtr.den with dtr.den > 0
getDTRColor(dtr) ==
    IF dtr.num = 0
    THEN LightTan
    ELSE IF FracLeq(dtr, Frac(30, 1))
         THEN interpolateColor(LightTan, MediumBrown, Frac(dtr.num, 30 * dtr.den))
         ELSE interpolateColor(MediumBrown, Black,
                               Frac(dtr.num - 30 * dtr.den, 70 * dtr.den))

----------------------------------------------------------------------------
\* RoastingScreen (wall-clock revision): pure parts

\* the React state of a mounted RoastingScreen, as one record
Recorder ==
    [seconds |-> seconds, isRunning |-> isRunning, startTime |-> startTime,
     firstCrackTime |-> firstCrackTime, roastStage |-> roastStage,
     temperatureData |-> temperatureData, currentTemp |-> currentTemp]

\* the useState initial values of a RoastingScreen
initialState(chargeTemp) ==
    [seconds |-> 0, isRunning |-> FALSE, startTime |-> null,
     firstCrackTime |-> null, roastStage |-> "ready",
     temperatureData |-> <<[time |-> 0, temperature |-> chargeTemp]>>,
     currentTemp |-> chargeTemp]

\* mutant of SessionState: the running flag and start reference are saved
SessionState_live(sess, r) ==
    [beanName |-> sess.beanName, chargeTemp |-> sess.chargeTemp, unit |-> sess.unit,
     temperatureData |-> r.temperatureData, currentTemp |-> r.currentTemp,
     seconds |-> r.seconds, isRunning |-> r.isRunning, startTime |-> r.startTime,
     firstCrackTime |-> r.firstCrackTime, roastStage |-> r.roastStage]

\* the SessionState object the save effect writes
SessionState(sess, r) ==
    [beanName |-> sess.beanName, chargeTemp |-> sess.chargeTemp, unit |-> sess.unit,
     temperatureData |-> r.temperatureData, currentTemp |-> r.currentTemp,
     seconds |-> r.seconds, isRunning |-> FALSE, startTime |-> null,
     firstCrackTime |-> r.firstCrackTime, roastStage |-> r.roastStage]

\* the dependencies of the save effect
SaveDeps(r) ==
    <<r.temperatureData, r.currentTemp, r.seconds, r.firstCrackTime, r.roastStage>>

\* mutant of keepLast: the first 3600 points are kept
keepLast_first(newData) ==
    IF Len(newData) > MaxPoints
    THEN SubSeq(newData, 1, MaxPoints)
    ELSE newData

\* newData.length > 3600 ? newData.slice(-3600) : newData
keepLast(newData) ==
    IF Len(newData) > MaxPoints
    THEN SubSeq(newData, Len(newData) - MaxPoints + 1, Len(newData))
    ELSE newData

\* mutant of elapsedAt: Math.round instead of Math.floor
elapsedAt_round(t, start) == (2 * (t - start) + MsPerSecond) \div (2 * MsPerSecond)

\* Math.floor((Date.now() - startTime) / 1000)
elapsedAt(t, start) == (t - start) \div MsPerSecond

\* mutant of logTemperature: the point is appended whatever its time
logTemperature_always(prev, elapsed, temp) ==
    keepLast(Append(prev, [time |-> elapsed, temperature |-> temp]))

\* mutant of logTemperature: the point is given the second after the last one
logTemperature_counted(prev, elapsed, temp) ==
    LET lastTime == IF Len(prev) > 0 THEN prev[Len(prev)].time ELSE -1
    IN  IF elapsed > lastTime
        THEN keepLast(Append(prev, [time |-> lastTime + 1, temperature |-> temp]))
        ELSE prev

\* the setTemperatureData updater of the interval callback
logTemperature(prev, elapsed, temp) ==
    LET lastTime == IF Len(prev) > 0 THEN prev[Len(prev)].time ELSE -1
    IN  IF elapsed > lastTime
        THEN keepLast(Append(prev, [time |-> elapsed, temperature |-> temp]))
        ELSE prev

stepOf(unit) == IF unit = "C" THEN CelsiusStep ELSE FahrenheitStep

\* setCurrentTemp updaters of handleIncreaseTemp / handleDecreaseTemp
increaseTemp(prevTemp, unit) == prevTemp + stepOf(unit)

\* mutant of decreaseTemp: no floor at 0
decreaseTemp_unclamped(prevTemp, unit) == prevTemp - stepOf(unit)

\* Math.max(0, prevTemp - decrement)
decreaseTemp(prevTemp, unit) == Max(0, prevTemp - stepOf(unit))

\* mutant of restoreSession: the series is not taken from the saved session
restoreSession_noSeries(r, state) ==
    [r EXCEPT !.temperatureData = <<>>,
              !.currentTemp = state.currentTemp,
              !.seconds = state.seconds,
              !.firstCrackTime = state.firstCrackTime,
              !.roastStage = state.roastStage,
              !.isRunning = FALSE,
              !.startTime = null]

\* the state updates of the load effect when a saved session parses
restoreSession(r, state) ==
    [r EXCEPT !.temperatureData = state.temperatureData,
              !.currentTemp = state.currentTemp,
              !.seconds = state.seconds,
              !.firstCrackTime = state.firstCrackTime,
              !.roastStage = state.roastStage,
              !.isRunning = FALSE,
              !.startTime = null]

\* the state updates of the load effect for a new session
autoStart(r, t) ==
    [r EXCEPT !.startTime = Some(t), !.isRunning = TRUE, !.roastStage = "started"]

\* the load effect: the state updates it queues on top of r
loadSession(r, ls, key, t) ==
    LET savedSession == getItem(ls, key)
    IN  IF savedSession # null
        THEN IF JSONparseThrows(Val(savedSession))
             THEN r
             ELSE restoreSession(r, JSONparse(Val(savedSession)))
        ELSE autoStart(r, t)

----------------------------------------------------------------------------
\* RoastingScreen (wall-clock revision): effects

appVars == <<session, summary>>
recVars == <<seconds, isRunning, startTime, firstCrackTime, roastStage,
             temperatureData, currentTemp, currentTempRef>>
timerVars == <<intervalRef, intervals, timerSeq>>
mountVars == <<mounted, isInitialMount, sessionKeyRef>>
budgetVars == <<mountsLeft, reloadsLeft, backsLeft, pressesLeft, ticksLeft>>
buildVars == <<revision, secondsRef, call>>

\* mutant of clearInterval: the interval is left active
clearInterval_none(ivs, ref) == ivs

\* if (intervalRef.current) clearInterval(intervalRef.current)
clearInterval(ivs, ref) ==
    IF ref = null THEN ivs ELSE {i \in ivs : i.id # Val(ref)}

\* the timer effect, deps [isRunning, startTime]: the previous run's cleanup,
\* then the effect body, when a dependency changed in the committed render
TimerEffect(r) ==
    IF r.isRunning = isRunning /\ r.startTime = startTime
    THEN UNCHANGED timerVars
    ELSE IF r.isRunning /\ r.startTime # null
         THEN /\ intervalRef' = Some(timerSeq)
              /\ intervals' = clearInterval(intervals, intervalRef)
                                \cup {[id |-> timerSeq, startTime |-> Val(r.startTime)]}
              /\ timerSeq' = timerSeq + 1
         ELSE /\ intervalRef' = null
              /\ intervals' = clearInterval(intervals, intervalRef)
              /\ timerSeq' = timerSeq

\* the save effect: runs when one of its dependencies changed
SaveEffect(r) ==
    localStorage' =
        IF ~isInitialMount /\ SaveDeps(r) # SaveDeps(Recorder)
        THEN setItem(localStorage, sessionKeyRef,
                     JSONstringify(SessionState(Val(session), r)))
        ELSE localStorage

\* React commits the render of state r: the state, then the ref-sync effect
\* and the timer effect
Commit(r) ==
    /\ seconds' = r.seconds
    /\ isRunning' = r.isRunning
    /\ startTime' = r.startTime
    /\ firstCrackTime' = r.firstCrackTime
    /\ roastStage' = r.roastStage
    /\ temperatureData' = r.temperatureData
    /\ currentTemp' = r.currentTemp
    /\ currentTempRef' = r.currentTemp
    /\ TimerEffect(r)

Op(name) == [op |-> name, stage |-> roastStage]

\* a handler of the mounted RoastingScreen runs only after the mount effects
Interactive == revision = "wall-clock" /\ mounted /\ ~isInitialMount

----------------------------------------------------------------------------
\* App and RoastingScreen (wall-clock revision): operations

\* mutant of MainScreenShown: the setup form stays usable beside a summary
MainScreenShown_besideSummary == session = null

\* MainScreen is shown only while there is neither a summary nor a session
MainScreenShown == summary = null /\ session = null

\* App.handleStartSession, then the first render of RoastingScreen
handleStartSession(beanName, chargeTemp, unit) ==
    /\ MainScreenShown
    /\ mountsLeft > 0
    /\ session' = Some([beanName |-> beanName, chargeTemp |-> chargeTemp, unit |-> unit])
    /\ summary' = null
    /\ mounted' = TRUE
    /\ isInitialMount' = TRUE
    /\ sessionKeyRef' = SessionKey(beanName, now)
    /\ seconds' = 0
    /\ isRunning' = FALSE
    /\ startTime' = null
    /\ firstCrackTime' = null
    /\ roastStage' = "ready"
    /\ temperatureData' = <<[time |-> 0, temperature |-> chargeTemp]>>
    /\ currentTemp' = chargeTemp
    /\ currentTempRef' = chargeTemp
    /\ intervalRef' = null
    /\ mountsLeft' = mountsLeft - 1
    /\ lastOp' = Op("startSession")
    /\ secondsRef' = 0
    /\ UNCHANGED <<now, localStorage, intervals, timerSeq, revision, call, reloadsLeft,
                   backsLeft, pressesLeft, ticksLeft>>

\* the effects of the first commit: load, save, timer; a development build
\* (StrictMode) runs them a second time before the queued updates render
MountEffects(strict) ==
    /\ revision = "wall-clock"
    /\ mounted /\ isInitialMount
    /\ LET sess == Val(session)
           first == loadSession(Recorder, localStorage, sessionKeyRef, now)
           saved1 == setItem(localStorage, sessionKeyRef,
                             JSONstringify(SessionState(sess, Recorder)))
           final == IF strict
                    THEN loadSession(first, saved1, sessionKeyRef, now)
                    ELSE first
       IN  /\ Commit(final)
           /\ localStorage' = setItem(localStorage, sessionKeyRef,
                                      JSONstringify(SessionState(sess, final)))
    /\ isInitialMount' = FALSE
    /\ lastOp' = Op("mount")
    /\ UNCHANGED <<now, appVars, mounted, sessionKeyRef, buildVars, budgetVars>>

\* the interval callback
Tick(iv) ==
    /\ Interactive
    /\ iv \in intervals
    /\ LET elapsed == elapsedAt(now, iv.startTime)
           r == [Recorder EXCEPT
                    !.seconds = elapsed,
                    !.temperatureData = logTemperature(@, elapsed, currentTempRef)]
       IN  Commit(r) /\ SaveEffect(r)
    /\ lastOp' = Op("tick")
    /\ UNCHANGED <<now, appVars, mountVars, buildVars, budgetVars>>

\* mutant of canStart: handleStart without its guard
canStart_always == TRUE

\* if (!isRunning && roastStage === 'ready')
canStart == ~isRunning /\ roastStage = "ready"

handleStart ==
    /\ Interactive
    /\ LET r == IF canStart
                THEN [Recorder EXCEPT !.startTime = Some(now - seconds * MsPerSecond),
                                      !.isRunning = TRUE,
                                      !.roastStage = "started"]
                ELSE Recorder
       IN  Commit(r) /\ SaveEffect(r)
    /\ lastOp' = Op("start")
    /\ UNCHANGED <<now, appVars, mountVars, buildVars, budgetVars>>

\* mutant of canFirstCrack: first crack can be marked again
canFirstCrack_again == roastStage # "ready"

\* if (roastStage === 'started')
canFirstCrack == roastStage = "started"

handleFirstCrack ==
    /\ Interactive
    /\ LET r == IF canFirstCrack
                THEN [Recorder EXCEPT !.firstCrackTime = Some(seconds),
                                      !.roastStage = "firstCrack"]
                ELSE Recorder
       IN  Commit(r) /\ SaveEffect(r)
    /\ lastOp' = Op("markFirstCrack")
    /\ UNCHANGED <<now, appVars, mountVars, buildVars, budgetVars>>

handleIncreaseTemp ==
    /\ Interactive
    /\ pressesLeft > 0
    /\ increaseTemp(currentTemp, Val(session).unit) <= MaxTemp
    /\ LET r == [Recorder EXCEPT !.currentTemp = increaseTemp(@, Val(session).unit)]
       IN  Commit(r) /\ SaveEffect(r)
    /\ pressesLeft' = pressesLeft - 1
    /\ lastOp' = Op("increaseTemperature")
    /\ UNCHANGED <<now, appVars, mountVars, buildVars, mountsLeft, reloadsLeft, backsLeft,
                   ticksLeft>>

handleDecreaseTemp ==
    /\ Interactive
    /\ pressesLeft > 0
    /\ LET r == [Recorder EXCEPT !.currentTemp = decreaseTemp(@, Val(session).unit)]
       IN  Commit(r) /\ SaveEffect(r)
    /\ pressesLeft' = pressesLeft - 1
    /\ lastOp' = Op("decreaseTemperature")
    /\ UNCHANGED <<now, appVars, mountVars, buildVars, mountsLeft, reloadsLeft, backsLeft,
                   ticksLeft>>

\* mutant of handleEndSession: the total time is read off the last point
handleEndSession_lastPoint(data) ==
    IF session # null
    THEN /\ summary' = Some([beanName |-> Val(session).beanName,
                             chargeTemp |-> Val(session).chargeTemp,
                             unit |-> Val(session).unit,
                             temperatureData |-> data.temperatureData,
                             totalTime |-> data.temperatureData[Len(data.temperatureData)].time,
                             firstCrackTime |-> data.firstCrackTime])
         /\ session' = null
    ELSE UNCHANGED <<session, summary>>

\* mutant of handleEndSession: the session is kept beside the summary
handleEndSession_sessionKept(data) ==
    IF session # null
    THEN /\ summary' = Some([beanName |-> Val(session).beanName,
                             chargeTemp |-> Val(session).chargeTemp,
                             unit |-> Val(session).unit,
                             temperatureData |-> data.temperatureData,
                             totalTime |-> data.totalTime,
                             firstCrackTime |-> data.firstCrackTime])
         /\ session' = session
    ELSE UNCHANGED <<session, summary>>

\* mutant of handleEndSession: the call is ignored
handleEndSession_ignored(data) == UNCHANGED <<session, summary>>

\* App.handleEndSession: the summary replaces the session
handleEndSession(data) ==
    IF session # null
    THEN /\ summary' = Some([beanName |-> Val(session).beanName,
                             chargeTemp |-> Val(session).chargeTemp,
                             unit |-> Val(session).unit,
                             temperatureData |-> data.temperatureData,
                             totalTime |-> data.totalTime,
                             firstCrackTime |-> data.firstCrackTime])
         /\ session' = null
    ELSE UNCHANGED <<session, summary>>

\* handleBackWithConfirmation, and the unmount its onBack call leads to
handleBackWithConfirmation ==
    /\ isRunning' = FALSE
    /\ roastStage' = "ended"
    /\ localStorage' = removeItem(localStorage, sessionKeyRef)
    /\ handleEndSession([temperatureData |-> temperatureData,
                         totalTime |-> seconds,
                         firstCrackTime |-> firstCrackTime])
    /\ mounted' = (session' # null)
    /\ intervals' = clearInterval(intervals, intervalRef)
    /\ UNCHANGED <<seconds, startTime, firstCrackTime, temperatureData, currentTemp,
                   currentTempRef, intervalRef, timerSeq, isInitialMount, sessionKeyRef>>

\* mutant of canEnd: the session can be ended from any stage
canEnd_always == TRUE

\* else if (roastStage === 'firstCrack')
canEnd == roastStage = "firstCrack"

\* the End branch of the session button
handleEnd ==
    /\ Interactive
    /\ IF canEnd
       THEN handleBackWithConfirmation
       ELSE UNCHANGED <<appVars, mountVars, localStorage, recVars, timerVars>>
    /\ lastOp' = Op("end")
    /\ UNCHANGED <<now, buildVars, budgetVars>>

\* SummaryScreen "Back to Setup": App.handleBackToSetup
handleBackToSetup ==
    /\ summary # null
    /\ session' = null
    /\ summary' = null
    /\ lastOp' = Op("backToSetup")
    /\ UNCHANGED <<now, mountVars, localStorage, recVars, timerVars, buildVars, budgetVars>>

\* the page is reloaded: React state and timers are gone, localStorage stays
Reload ==
    /\ reloadsLeft > 0
    /\ session # null \/ summary # null
    /\ session' = null
    /\ summary' = null
    /\ mounted' = FALSE
    /\ intervals' = {}
    /\ reloadsLeft' = reloadsLeft - 1
    /\ lastOp' = Op("reload")
    /\ UNCHANGED <<now, isInitialMount, sessionKeyRef, localStorage, recVars, intervalRef,
                   timerSeq, buildVars, mountsLeft, backsLeft, pressesLeft, ticksLeft>>

ClockValues == {k * Quantum : k \in 0 .. (MaxNow \div Quantum)}

\* the clock of the model starts with the first submitted setup form
ClockStarted ==
    /\ revision = "wall-clock"
    /\ session # null \/ summary # null \/ localStorage # <<>>

\* time passes
ClockAdvance(t) ==
    /\ ClockStarted
    /\ t > now
    /\ now' = t
    /\ UNCHANGED <<appVars, mountVars, localStorage, recVars, timerVars, buildVars,
                   budgetVars, lastOp>>

\* the system clock is set back
ClockBack(t) ==
    /\ ClockStarted
    /\ backsLeft > 0
    /\ t < now
    /\ now' = t
    /\ backsLeft' = backsLeft - 1
    /\ UNCHANGED <<appVars, mountVars, localStorage, recVars, timerVars, buildVars,
                   mountsLeft, reloadsLeft, pressesLeft, ticksLeft, lastOp>>

\* the application before the first setup form is submitted
InitApp ==
    /\ now = 0
    /\ session = null
    /\ summary = null
    /\ localStorage = <<>>
    /\ mounted = FALSE
    /\ isInitialMount = TRUE
    /\ sessionKeyRef = SessionKey("", 0)
    /\ seconds = 0
    /\ isRunning = FALSE
    /\ startTime = null
    /\ firstCrackTime = null
    /\ roastStage = "ready"
    /\ temperatureData = <<>>
    /\ currentTemp = 0
    /\ currentTempRef = 0
    /\ intervalRef = null
    /\ intervals = {}
    /\ timerSeq = 1
    /\ secondsRef = 0
    /\ call = [fn |-> "none"]
    /\ lastOp = [op |-> "none", stage |-> "ready"]

Init ==
    /\ InitApp
    /\ revision = "wall-clock"
    /\ mountsLeft = MaxMounts
    /\ reloadsLeft = 0
    /\ backsLeft = MaxClockBacks
    /\ pressesLeft = MaxPresses
    /\ ticksLeft = 0

Next ==
    \/ \E b \in BeanNames, s \in Setups : handleStartSession(b, s[1], s[2])
    \/ \E strict \in BOOLEAN : MountEffects(strict)
    \/ \E iv \in intervals : Tick(iv)
    \/ handleStart
    \/ handleFirstCrack
    \/ handleEnd
    \/ handleIncreaseTemp
    \/ handleDecreaseTemp
    \/ handleBackToSetup
    \/ \E t \in ClockValues : ClockAdvance(t)
    \/ \E t \in ClockValues : ClockBack(t)

Spec == Init /\ [][Next]_vars

----------------------------------------------------------------------------
\* RoastingScreen (tick-count revision) under the App without a summary

InteractiveLegacy == revision = "tick-count" /\ mounted /\ ~isInitialMount

\* the state of the tick-count RoastingScreen, as one record
RecorderLegacy ==
    [seconds |-> seconds, isRunning |-> isRunning,
     temperatureData |-> temperatureData, currentTemp |-> currentTemp]

\* [...prev, { time, temperature }], cut to the last 3600 points; an updater
\* function that React invokes twice queues the inner update twice
appendPoint(prev, time, temp, twice) ==
    LET once == keepLast(Append(prev, [time |-> time, temperature |-> temp]))
    IN  IF twice
        THEN keepLast(Append(once, [time |-> time, temperature |-> temp]))
        ELSE once

\* the timer effect, deps [isRunning]
TimerEffectLegacy(r) ==
    IF r.isRunning = isRunning
    THEN UNCHANGED timerVars
    ELSE IF r.isRunning
         THEN /\ intervalRef' = Some(timerSeq)
              /\ intervals' = clearInterval(intervals, intervalRef)
                                \cup {[id |-> timerSeq, startTime |-> 0]}
              /\ timerSeq' = timerSeq + 1
         ELSE /\ intervalRef' = null
              /\ intervals' = clearInterval(intervals, intervalRef)
              /\ timerSeq' = timerSeq

\* React commits the render of state r: the state, the two ref-sync effects
\* and the timer effect
CommitLegacy(r) ==
    /\ seconds' = r.seconds
    /\ isRunning' = r.isRunning
    /\ temperatureData' = r.temperatureData
    /\ currentTemp' = r.currentTemp
    /\ currentTempRef' = r.currentTemp
    /\ secondsRef' = r.seconds
    /\ TimerEffectLegacy(r)
    /\ UNCHANGED <<startTime, firstCrackTime, roastStage>>

\* the effects of the first commit: nothing runs while isRunning is false
MountEffectsLegacy ==
    /\ revision = "tick-count"
    /\ mounted /\ isInitialMount
    /\ isInitialMount' = FALSE
    /\ lastOp' = Op("mount")
    /\ UNCHANGED <<now, appVars, mounted, sessionKeyRef, localStorage, recVars,
                   timerVars, buildVars, budgetVars>>

\* the interval callback: setSeconds(prevSeconds => prevSeconds + 1)
TickLegacy(iv, twice) ==
    /\ InteractiveLegacy
    /\ iv \in intervals
    /\ ticksLeft > 0
    /\ LET newSeconds == seconds + 1
           r == [RecorderLegacy EXCEPT
                    !.seconds = newSeconds,
                    !.temperatureData =
                        appendPoint(@, newSeconds, currentTempRef, twice)]
       IN  CommitLegacy(r)
    /\ ticksLeft' = ticksLeft - 1
    /\ lastOp' = Op("tick")
    /\ UNCHANGED <<now, appVars, mountVars, localStorage, revision, call,
                   mountsLeft, reloadsLeft, backsLeft, pressesLeft>>

handleStartLegacy ==
    /\ InteractiveLegacy
    /\ ~isRunning
    /\ CommitLegacy([RecorderLegacy EXCEPT !.isRunning = TRUE])
    /\ lastOp' = Op("start")
    /\ UNCHANGED <<now, appVars, mountVars, localStorage, revision, call, budgetVars>>

handleStop ==
    /\ InteractiveLegacy
    /\ isRunning
    /\ pressesLeft > 0
    /\ CommitLegacy([RecorderLegacy EXCEPT !.isRunning = FALSE])
    /\ pressesLeft' = pressesLeft - 1
    /\ lastOp' = Op("stop")
    /\ UNCHANGED <<now, appVars, mountVars, localStorage, revision, call,
                   mountsLeft, reloadsLeft, backsLeft, ticksLeft>>

\* setCurrentTemp(prevTemp => ...) of a temperature button, with the point it
\* logs while the timer runs
changeTempLegacy(newTemp, twice) ==
    /\ InteractiveLegacy
    /\ pressesLeft > 0
    /\ LET r == [RecorderLegacy EXCEPT
                    !.currentTemp = newTemp,
                    !.temperatureData =
                        IF isRunning
                        THEN appendPoint(@, secondsRef, newTemp, twice)
                        ELSE @]
       IN  CommitLegacy(r)
    /\ pressesLeft' = pressesLeft - 1
    /\ UNCHANGED <<now, appVars, mountVars, localStorage, revision, call,
                   mountsLeft, reloadsLeft, backsLeft, ticksLeft>>

handleIncreaseTempLegacy(twice) ==
    /\ InteractiveLegacy
    /\ increaseTemp(currentTemp, Val(session).unit) <= MaxTemp
    /\ changeTempLegacy(increaseTemp(currentTemp, Val(session).unit), twice)
    /\ lastOp' = Op("increaseTemperature")

handleDecreaseTempLegacy(twice) ==
    /\ changeTempLegacy(decreaseTemp(currentTemp, Val(session).unit), twice)
    /\ lastOp' = Op("decreaseTemperature")

\* "Back to Setup": App.handleBack, and the unmount of the screen
handleBack ==
    /\ InteractiveLegacy
    /\ session' = null
    /\ mounted' = FALSE
    /\ intervals' = clearInterval(intervals, intervalRef)
    /\ lastOp' = Op("back")
    /\ UNCHANGED <<now, summary, isInitialMount, sessionKeyRef, localStorage, recVars,
                   intervalRef, timerSeq, buildVars, budgetVars>>

----------------------------------------------------------------------------
\* Both revisions of the recorder, with more presses of the temperature buttons

InitTemp ==
    /\ InitApp
    /\ revision \in {"wall-clock", "tick-count"}
    /\ mountsLeft = 1
    /\ reloadsLeft = 0
    /\ backsLeft = 0
    /\ pressesLeft = MaxPressesTemp
    /\ ticksLeft = MaxTicks

NextTemp ==
    \/ \E b \in BeanNames, s \in Setups : handleStartSession(b, s[1], s[2])
    \/ \E strict \in BOOLEAN : MountEffects(strict)
    \/ \E iv \in intervals : Tick(iv)
    \/ handleStart
    \/ handleFirstCrack
    \/ handleEnd
    \/ handleIncreaseTemp
    \/ handleDecreaseTemp
    \/ handleBackToSetup
    \/ \E t \in ClockValues : ClockAdvance(t)
    \/ MountEffectsLegacy
    \/ \E iv \in intervals, twice \in BOOLEAN : TickLegacy(iv, twice)
    \/ handleStartLegacy
    \/ handleStop
    \/ \E twice \in BOOLEAN : handleIncreaseTempLegacy(twice)
    \/ \E twice \in BOOLEAN : handleDecreaseTempLegacy(twice)
    \/ handleBack

SpecTemp == InitTemp /\ [][NextTemp]_vars

----------------------------------------------------------------------------
\* A session that has been sampled once a second, at constant temperature,
\* until its series is CapSlack points below the cap

CapSession == [beanName |-> "Kenya", chargeTemp |-> ChargeLow, unit |-> "C"]
CapPoints == MaxPoints - CapSlack
CapSeries == [i \in 1 .. CapPoints |-> [time |-> i - 1, temperature |-> ChargeLow]]
CapNow == (CapPoints - 1) * MsPerSecond
CapClockValues == {CapNow + k * Quantum : k \in 0 .. (MaxNow \div Quantum)}

InitCap ==
    /\ revision \in {"wall-clock", "tick-count"}
    /\ session = Some(CapSession)
    /\ summary = null
    /\ mounted = TRUE
    /\ isInitialMount = FALSE
    /\ sessionKeyRef = SessionKey(CapSession.beanName, 0)
    /\ seconds = CapPoints - 1
    /\ secondsRef = IF revision = "tick-count" THEN CapPoints - 1 ELSE 0
    /\ isRunning = TRUE
    /\ firstCrackTime = null
    /\ temperatureData = CapSeries
    /\ currentTemp = ChargeLow
    /\ currentTempRef = ChargeLow
    /\ intervalRef = Some(1)
    /\ intervals = {[id |-> 1, startTime |-> 0]}
    /\ timerSeq = 2
    /\ IF revision = "wall-clock"
       THEN /\ now = CapNow
            /\ startTime = Some(0)
            /\ roastStage = "started"
            /\ localStorage =
                   setItem(<<>>, sessionKeyRef,
                           JSONstringify(SessionState(CapSession, Recorder)))
       ELSE /\ now = 0
            /\ startTime = null
            /\ roastStage = "ready"
            /\ localStorage = <<>>
    /\ call = [fn |-> "none"]
    /\ lastOp = [op |-> "tick", stage |-> roastStage]
    /\ mountsLeft = 0
    /\ reloadsLeft = 0
    /\ backsLeft = 0
    /\ pressesLeft = MaxPresses
    /\ ticksLeft = MaxTicks

NextCap ==
    \/ \E iv \in intervals : Tick(iv)
    \/ handleStart
    \/ handleFirstCrack
    \/ handleEnd
    \/ handleIncreaseTemp
    \/ handleDecreaseTemp
    \/ handleBackToSetup
    \/ \E t \in CapClockValues : ClockAdvance(t)
    \/ \E iv \in intervals, twice \in BOOLEAN : TickLegacy(iv, twice)
    \/ handleStartLegacy
    \/ handleStop
    \/ \E twice \in BOOLEAN : handleIncreaseTempLegacy(twice)
    \/ \E twice \in BOOLEAN : handleDecreaseTempLegacy(twice)
    \/ handleBack

SpecCap == InitCap /\ [][NextCap]_vars

----------------------------------------------------------------------------
\* calculateDTR evaluated on its own

FirstCrackInputs == {null} \cup {Some(t) : t \in 0 .. MaxSeconds}

\* the call returns
evalCalculateDTR ==
    /\ call.fn = "pending"
    /\ call' = [fn |-> "calculateDTR", firstCrackTime |-> call.firstCrackTime,
                totalTime |-> call.totalTime,
                result |-> calculateDTR(call.firstCrackTime, call.totalTime)]
    /\ UNCHANGED <<now, appVars, mountVars, localStorage, recVars, timerVars,
                   revision, secondsRef, budgetVars, lastOp>>

\* a call of calculateDTR with arguments drawn from the input sets
InitDTR ==
    /\ now = 0
    /\ session = null
    /\ summary = null
    /\ localStorage = <<>>
    /\ mounted = FALSE
    /\ isInitialMount = TRUE
    /\ sessionKeyRef = SessionKey("", 0)
    /\ seconds = 0
    /\ isRunning = FALSE
    /\ startTime = null
    /\ firstCrackTime = null
    /\ roastStage = "ready"
    /\ temperatureData = <<>>
    /\ currentTemp = 0
    /\ currentTempRef = 0
    /\ intervalRef = null
    /\ intervals = {}
    /\ timerSeq = 1
    /\ secondsRef = 0
    /\ lastOp = [op |-> "none", stage |-> "ready"]
    /\ revision = "wall-clock"
    /\ mountsLeft = 0
    /\ reloadsLeft = 0
    /\ backsLeft = 0
    /\ pressesLeft = 0
    /\ ticksLeft = 0
    /\ \E fc \in FirstCrackInputs, total \in 0 .. MaxSeconds :
           call = [fn |-> "pending", firstCrackTime |-> fc, totalTime |-> total]

NextDTR == evalCalculateDTR

SpecDTR == InitDTR /\ [][NextDTR]_vars

----------------------------------------------------------------------------
\* The recorder across page reloads and storage failures

\* a stored record is damaged between two page loads
StorageCorrupted(k) ==
    /\ session = null /\ summary = null
    /\ reloadsLeft < MaxReloads
    /\ k \in DOMAIN localStorage
    /\ localStorage[k] # CorruptText
    /\ localStorage' = setItem(localStorage, k, CorruptText)
    /\ lastOp' = Op("storageCorrupted")
    /\ UNCHANGED <<now, appVars, mountVars, recVars, timerVars, buildVars, budgetVars>>

\* localStorage.setItem throws in the save effect that follows a tick: the
\* ErrorBoundary replaces the App by its fallback, whose button reloads the page
TickSaveThrows(iv) ==
    /\ Interactive
    /\ iv \in intervals
    /\ reloadsLeft > 0
    /\ LET elapsed == elapsedAt(now, iv.startTime)
           r == [Recorder EXCEPT
                    !.seconds = elapsed,
                    !.temperatureData = logTemperature(@, elapsed, currentTempRef)]
       IN  /\ SaveDeps(r) # SaveDeps(Recorder)
           /\ seconds' = r.seconds
           /\ temperatureData' = r.temperatureData
    /\ session' = null
    /\ summary' = null
    /\ mounted' = FALSE
    /\ intervals' = {}
    /\ reloadsLeft' = reloadsLeft - 1
    /\ lastOp' = Op("saveThrows")
    /\ UNCHANGED <<now, isInitialMount, sessionKeyRef, localStorage, isRunning, startTime,
                   firstCrackTime, roastStage, currentTemp, currentTempRef, intervalRef,
                   timerSeq, buildVars, mountsLeft, backsLeft, pressesLeft, ticksLeft>>

InitReload ==
    /\ InitApp
    /\ revision = "wall-clock"
    /\ mountsLeft = MaxReloads + 1
    /\ reloadsLeft = MaxReloads
    /\ backsLeft = 0
    /\ pressesLeft = MaxPresses
    /\ ticksLeft = 0

NextReload ==
    \/ \E b \in BeanNames, s \in Setups : handleStartSession(b, s[1], s[2])
    \/ \E strict \in BOOLEAN : MountEffects(strict)
    \/ \E iv \in intervals : Tick(iv)
    \/ handleStart
    \/ handleFirstCrack
    \/ handleEnd
    \/ handleIncreaseTemp
    \/ handleDecreaseTemp
    \/ handleBackToSetup
    \/ \E t \in ClockValues : ClockAdvance(t)
    \/ Reload
    \/ \E k \in DOMAIN localStorage : StorageCorrupted(k)
    \/ \E iv \in intervals : TickSaveThrows(iv)

SpecReload == InitReload /\ [][NextReload]_vars

----------------------------------------------------------------------------
\* MainScreen: the setup form

\* the texts of at most MaxText characters over an alphabet
Texts(alphabet) == UNION {[1 .. n -> alphabet] : n \in 0 .. MaxText}

\* what can be typed into the bean name and charge temperature fields
NameTexts == Texts({" ", "K"})
TempTexts == Texts({"0", "1", "-", ".", " ", "x"})

IsDigit(c) == c \in {"0", "1", "2", "3", "4", "5", "6", "7", "8", "9"}
IsSpace(c) == c = " "

RECURSIVE trimStart(_)
trimStart(str) ==
    IF str # <<>> /\ IsSpace(str[1]) THEN trimStart(Tail(str)) ELSE str

RECURSIVE trimEnd(_)
trimEnd(str) ==
    IF str # <<>> /\ IsSpace(str[Len(str)])
    THEN trimEnd(SubSeq(str, 1, Len(str) - 1))
    ELSE str

\* String.prototype.trim
trim(str) == trimEnd(trimStart(str))

\* the length of the run of decimal digits a text starts with
RECURSIVE digitRun(_)
digitRun(str) ==
    IF str # <<>> /\ IsDigit(str[1]) THEN 1 + digitRun(Tail(str)) ELSE 0

\* the number a text of decimal digits denotes
RECURSIVE decimalValue(_)
decimalValue(ds) ==
    IF ds = <<>> THEN 0
    ELSE 10 * decimalValue(SubSeq(ds, 1, Len(ds) - 1)) + digitValue(ds[Len(ds)])

RECURSIVE pow10(_)
pow10(k) == IF k = 0 THEN 1 ELSE 10 * pow10(k - 1)

\* parseFloat: leading white space, a sign, digits, a fraction; the longest
\* such prefix is the number (an exact quotient), and null stands for NaN
parseFloat(str) ==
    LET t == trimStart(str)
        signed == t # <<>> /\ t[1] \in {"-", "+"}
        sign == IF t # <<>> /\ t[1] = "-" THEN -1 ELSE 1
        body == IF signed THEN Tail(t) ELSE t
        nInt == digitRun(body)
        rest == SubSeq(body, nInt + 1, Len(body))
        nFrac == IF rest # <<>> /\ rest[1] = "." THEN digitRun(Tail(rest)) ELSE 0
        ds == SubSeq(body, 1, nInt) \o SubSeq(rest, 2, nFrac + 1)
    IN  IF nInt + nFrac = 0
        THEN null
        ELSE Some(Frac(sign * decimalValue(ds), pow10(nFrac)))

\* a number of degrees in the model's tenths of a degree
toTenths(x) == Frac(10 * x.num, x.den)

\* mutant of handleSubmit: a charge temperature of 0 is accepted
handleSubmit_zeroAllowed(beanName, chargeTemp, unit) ==
    LET temp == parseFloat(chargeTemp)
    IN  IF trim(beanName) # <<>> /\ temp # null /\ Val(temp).num >= 0
        THEN handleStartSession(trim(beanName), toTenths(Val(temp)), unit)
        ELSE /\ lastOp' = Op("submitRejected")
             /\ UNCHANGED <<now, appVars, mountVars, localStorage, recVars, timerVars,
                            buildVars, budgetVars>>

\* MainScreen.handleSubmit
handleSubmit(beanName, chargeTemp, unit) ==
    LET temp == parseFloat(chargeTemp)
    IN  IF trim(beanName) # <<>> /\ temp # null /\ Val(temp).num > 0
        THEN handleStartSession(trim(beanName), toTenths(Val(temp)), unit)
        ELSE /\ lastOp' = Op("submitRejected")
             /\ UNCHANGED <<now, appVars, mountVars, localStorage, recVars, timerVars,
                            buildVars, budgetVars>>

\* the form is submitted with what has been typed
SubmitForm ==
    /\ call.fn = "form"
    /\ lastOp.op = "none"
    /\ MainScreenShown
    /\ handleSubmit(call.beanName, call.chargeTemp, call.unit)

\* the setup screen with a filled-in form
InitSetup ==
    /\ now = 0
    /\ session = null
    /\ summary = null
    /\ localStorage = <<>>
    /\ mounted = FALSE
    /\ isInitialMount = TRUE
    /\ sessionKeyRef = SessionKey("", 0)
    /\ seconds = 0
    /\ isRunning = FALSE
    /\ startTime = null
    /\ firstCrackTime = null
    /\ roastStage = "ready"
    /\ temperatureData = <<>>
    /\ currentTemp = 0
    /\ currentTempRef = 0
    /\ intervalRef = null
    /\ intervals = {}
    /\ timerSeq = 1
    /\ secondsRef = 0
    /\ lastOp = [op |-> "none", stage |-> "ready"]
    /\ revision = "wall-clock"
    /\ mountsLeft = 1
    /\ reloadsLeft = 0
    /\ backsLeft = 0
    /\ pressesLeft = 0
    /\ ticksLeft = 0
    /\ \E b \in NameTexts, c \in TempTexts, u \in {"C", "F"} :
           call = [fn |-> "form", beanName |-> b, chargeTemp |-> c, unit |-> u]

NextSetup == SubmitForm

SpecSetup == InitSetup /\ [][NextSetup]_vars

----------------------------------------------------------------------------
\* getDTRColor evaluated on its own

\* the application with nothing started, whatever is stored, whatever call is
\* pending and however often the page is still to be reloaded
IdleApp ==
    /\ now = 0
    /\ session = null
    /\ summary = null
    /\ mounted = FALSE
    /\ isInitialMount = TRUE
    /\ sessionKeyRef = SessionKey("", 0)
    /\ seconds = 0
    /\ isRunning = FALSE
    /\ startTime = null
    /\ firstCrackTime = null
    /\ roastStage = "ready"
    /\ temperatureData = <<>>
    /\ currentTemp = 0
    /\ currentTempRef = 0
    /\ intervalRef = null
    /\ intervals = {}
    /\ timerSeq = 1
    /\ secondsRef = 0
    /\ lastOp = [op |-> "none", stage |-> "ready"]
    /\ revision = "wall-clock"
    /\ mountsLeft = 0
    /\ backsLeft = 0
    /\ pressesLeft = 0
    /\ ticksLeft = 0

\* the same with nothing stored and no reload to come
Idle == IdleApp /\ localStorage = <<>> /\ reloadsLeft = 0

DTRInputs == {Frac(n, PctScale) : n \in (0 - PctOver) * PctScale .. (100 + PctOver) * PctScale}

\* the call returns
evalGetDTRColor ==
    /\ call.fn = "pending"
    /\ call' = [fn |-> "getDTRColor", dtr |-> call.dtr, result |-> getDTRColor(call.dtr)]
    /\ UNCHANGED <<now, appVars, mountVars, localStorage, recVars, timerVars,
                   revision, secondsRef, budgetVars, lastOp>>

\* a call of getDTRColor with its argument drawn from the input set
InitColor ==
    /\ Idle
    /\ \E dtr \in DTRInputs : call = [fn |-> "pending", dtr |-> dtr]

NextColor == evalGetDTRColor

SpecColor == InitColor /\ [][NextColor]_vars

----------------------------------------------------------------------------
\* App: its three callbacks called in any order, whatever screen is shown

\* what a caller may pass to handleEndSession
EndData ==
    {[temperatureData |-> d, totalTime |-> t, firstCrackTime |-> fc] :
        d \in {<<[time |-> 0, temperature |-> c]>> : c \in {ChargeLow, ChargeHigh}}
               \cup {<<[time |-> 0, temperature |-> c], [time |-> 1, temperature |-> e]>> :
                        c \in {ChargeLow, ChargeHigh}, e \in {0, ChargeLow}},
        t \in 0 .. MaxTicks,
        fc \in {null} \cup {Some(c) : c \in 0 .. MaxTicks}}

navRest == <<now, mountVars, localStorage, recVars, timerVars, buildVars, budgetVars>>

\* App.handleStartSession
startSession(beanName, chargeTemp, unit) ==
    /\ session' = Some([beanName |-> beanName, chargeTemp |-> chargeTemp, unit |-> unit])
    /\ summary' = null
    /\ lastOp' = Op("startSession")
    /\ UNCHANGED navRest

\* App.handleEndSession
endSession(data) ==
    /\ handleEndSession(data)
    /\ lastOp' = Op("endSession")
    /\ UNCHANGED navRest

\* App.handleBackToSetup
backToSetup ==
    /\ session' = null
    /\ summary' = null
    /\ lastOp' = Op("backToSetup")
    /\ UNCHANGED navRest

InitNav == Idle /\ call = [fn |-> "none"]

NextNav ==
    \/ \E b \in BeanNames, s \in Setups : startSession(b, s[1], s[2])
    \/ \E data \in EndData : endSession(data)
    \/ backToSetup

SpecNav == InitNav /\ [][NextNav]_vars

----------------------------------------------------------------------------
\* cacheManager and the application entry point

APP_VERSION == "1.5.1"
VERSION_KEY == <<"app_version">>

\* the version an earlier deployment stored
OldVersion == "1.5.0"

\* a stored string that is not a session record
PlainText(str) == [text |-> str]

\* key.startsWith('roasting_session_')
startsWithSessionPrefix(key) == key[1] = "roasting_session"

\* if (value): the empty string is the only falsy stored value
truthy(value) == value # PlainText("")

\* mutant of clearOldLocalStorage: the sessions are cleared with the rest
clearOldLocalStorage_all(ls) == [k \in {} |-> PlainText("")]

\* clearOldLocalStorage: what is stored after clear() and the restore loop
clearOldLocalStorage(ls) ==
    LET currentSessionKeys == {k \in DOMAIN ls : startsWithSessionPrefix(k)}
        kept == {k \in currentSessionKeys : truthy(ls[k])}
    IN  [k \in kept |-> ls[k]]

\* mutant of caught: the error leaves initializeCacheManager
caught_rethrown(c) == [c EXCEPT !.pc = "rejected"]

\* the catch clause of initializeCacheManager: the error is logged and the
\* promise resolves
caught(c) == [c EXCEPT !.pc = "resolved"]

\* what a guarded clearing loop leaves of a set of entries: none of them, all
\* of them where the interface does not exist, and any of them when keys(),
\* getRegistrations() or one of the deletions rejects
Remaining(mode, entries) ==
    CASE mode = "ok" -> {{}}
      [] mode = "absent" -> {entries}
      [] mode = "throws" -> IF entries = {} THEN {{}} ELSE SUBSET entries \ {{}}

cacheRest == <<now, appVars, mountVars, recVars, timerVars, revision, secondsRef,
               mountsLeft, backsLeft, pressesLeft, ticksLeft, lastOp>>

\* initializeCacheManager up to its version test
CheckVersion ==
    /\ call.fn = "initializeCacheManager"
    /\ call.pc = "start"
    /\ call' = IF call.storageMode = "denied"
               THEN caught(call)
               ELSE IF getItem(localStorage, VERSION_KEY) # Some(PlainText(APP_VERSION))
                    THEN [call EXCEPT !.pc = "clearAllCaches"]
                    ELSE [call EXCEPT !.pc = "resolved"]
    /\ UNCHANGED <<localStorage, reloadsLeft, cacheRest>>

\* await clearAllCaches()
clearAllCaches ==
    /\ call.fn = "initializeCacheManager"
    /\ call.pc = "clearAllCaches"
    /\ \E rest \in Remaining(call.cachesMode, call.caches) :
           call' = [call EXCEPT !.caches = rest, !.pc = "unregisterServiceWorkers"]
    /\ UNCHANGED <<localStorage, reloadsLeft, cacheRest>>

\* await unregisterServiceWorkers()
unregisterServiceWorkers ==
    /\ call.fn = "initializeCacheManager"
    /\ call.pc = "unregisterServiceWorkers"
    /\ \E rest \in Remaining(call.workersMode, call.registrations) :
           call' = [call EXCEPT !.registrations = rest, !.pc = "clearOldLocalStorage"]
    /\ UNCHANGED <<localStorage, reloadsLeft, cacheRest>>

\* clearOldLocalStorage() and the update of the stored version
UpdateVersion ==
    /\ call.fn = "initializeCacheManager"
    /\ call.pc = "clearOldLocalStorage"
    /\ IF call.storageMode = "readonly"
       THEN /\ localStorage' = clearOldLocalStorage(localStorage)
            /\ call' = caught(call)
       ELSE /\ localStorage' = setItem(clearOldLocalStorage(localStorage),
                                       VERSION_KEY, PlainText(APP_VERSION))
            /\ call' = [call EXCEPT !.pc = "resolved"]
    /\ UNCHANGED <<reloadsLeft, cacheRest>>

\* initializeCacheManager().then(...)
CanRender == call.pc = "resolved" /\ ~call.rendered

\* the entry point renders the application
Render ==
    /\ call.fn = "initializeCacheManager"
    /\ CanRender
    /\ call' = [call EXCEPT !.rendered = TRUE]
    /\ UNCHANGED <<localStorage, reloadsLeft, cacheRest>>

\* the page is loaded again: the entry point runs from its first line
LoadAgain ==
    /\ call.fn = "initializeCacheManager"
    /\ call.rendered
    /\ reloadsLeft > 0
    /\ reloadsLeft' = reloadsLeft - 1
    /\ call' = [call EXCEPT !.pc = "start", !.rendered = FALSE,
                            !.before = localStorage,
                            !.cachesBefore = call.caches,
                            !.registrationsBefore = call.registrations]
    /\ UNCHANGED <<localStorage, cacheRest>>

\* what a browser may hold when the page is loaded
StoredSessionKeys == {SessionKey("Kenya", 0), SessionKey("Kenya", Quantum)}
StoredSessionTexts == {JSONstringify(initialState(ChargeLow)), CorruptText}
StoredOtherKeys == {<<"theme">>}
StoredVersions == {null, Some(PlainText(OldVersion)), Some(PlainText(APP_VERSION))}
CacheNames == {"assets", "pages"}
Registrations == {"sw"}

Stored(sessions, others, version) ==
    [k \in DOMAIN sessions \cup others \cup (IF version = null THEN {} ELSE {VERSION_KEY}) |->
        IF k = VERSION_KEY THEN Val(version)
        ELSE IF k \in others THEN PlainText("dark")
        ELSE sessions[k]]

InitCache ==
    /\ IdleApp
    /\ \E keys \in SUBSET StoredSessionKeys, others \in SUBSET StoredOtherKeys,
          version \in StoredVersions,
          storageMode \in {"ok", "denied", "readonly"} :
         \E sessions \in [keys -> StoredSessionTexts] :
           /\ localStorage = IF storageMode = "readonly" THEN <<>>
                             ELSE Stored(sessions, others, version)
           /\ \E cachesMode \in {"ok", "throws", "absent"},
                 workersMode \in {"ok", "throws", "absent"},
                 cs \in SUBSET CacheNames, rs \in SUBSET Registrations :
                /\ cachesMode = "absent" => cs = {}
                /\ workersMode = "absent" => rs = {}
                /\ call = [fn |-> "initializeCacheManager", pc |-> "start",
                           rendered |-> FALSE,
                           storageMode |-> storageMode,
                           cachesMode |-> cachesMode,
                           workersMode |-> workersMode,
                           caches |-> cs, registrations |-> rs,
                           before |-> localStorage,
                           cachesBefore |-> cs, registrationsBefore |-> rs]
    /\ reloadsLeft = MaxReloads

NextCache ==
    \/ CheckVersion
    \/ clearAllCaches
    \/ unregisterServiceWorkers
    \/ UpdateVersion
    \/ Render
    \/ LoadAgain

SpecCache == InitCache /\ [][NextCache]_vars

\* a promise that can settle settles, and its continuation runs
CacheProgress ==
    CheckVersion \/ clearAllCaches \/ unregisterServiceWorkers \/ UpdateVersion \/ Render

SpecCacheLive == SpecCache /\ WF_vars(CacheProgress)

----------------------------------------------------------------------------
\* C1: within a mounted session the stage changes only one step along
\* ready -> started -> firstCrack -> ended, whatever operation runs
StageSucc ==
    {<<"ready", "started">>, <<"started", "firstCrack">>, <<"firstCrack", "ended">>}

C1_StageLinear ==
    [][mounted => (roastStage' = roastStage \/ <<roastStage, roastStage'>> \in StageSucc)]_vars

C1_Witness ==
    /\ lastOp = [op |-> "end", stage |-> "firstCrack"]
    /\ roastStage = "ended"
    /\ summary # null

TickStep == \E iv \in intervals : Tick(iv)

LastTime(data) == data[Len(data)].time

sessionFields ==
    <<roastStage, seconds, isRunning, startTime, firstCrackTime, currentTemp,
      temperatureData>>

\* C2: start requested in stage started, markFirstCrack requested in stage
\* ready or firstCrack, and end requested in stage ready change nothing of the
\* session
IllegalRequests ==
    {[op |-> "start", stage |-> "started"],
     [op |-> "markFirstCrack", stage |-> "ready"],
     [op |-> "markFirstCrack", stage |-> "firstCrack"],
     [op |-> "end", stage |-> "ready"]}

C2_IllegalIsNoOp ==
    [][lastOp' \in IllegalRequests => UNCHANGED sessionFields]_vars

C2_Witness ==
    /\ lastOp = [op |-> "markFirstCrack", stage |-> "firstCrack"]
    /\ isRunning
    /\ firstCrackTime # null
    /\ Len(temperatureData) >= 2

\* C3: the first-crack time becomes present only by markFirstCrack from stage
\* started, with a value no greater than the elapsed seconds of that moment,
\* and once present it never changes while the session lives
C3_FirstCrackOnce ==
    [][mounted =>
        /\ (firstCrackTime = null /\ firstCrackTime' # null) =>
              /\ lastOp' = [op |-> "markFirstCrack", stage |-> "started"]
              /\ roastStage' = "firstCrack"
              /\ Val(firstCrackTime') <= seconds
              /\ seconds' = seconds
        /\ firstCrackTime # null => firstCrackTime' = firstCrackTime]_vars

C3_Witness ==
    /\ lastOp = [op |-> "end", stage |-> "firstCrack"]
    /\ firstCrackTime = Some(1)
    /\ seconds = 2

\* C5: the times of the series never decrease along the series, and a sampler
\* tick appends a point only if its time is greater than the last stored time
NonDecreasing(data) ==
    \A i \in 1 .. Len(data) - 1 : data[i].time <= data[i + 1].time

C5_SeriesMonotonic ==
    /\ [](NonDecreasing(temperatureData))
    /\ [][TickStep =>
            IF seconds' > LastTime(temperatureData)
            THEN /\ Len(temperatureData') = Len(temperatureData) + 1
                 /\ LastTime(temperatureData') > LastTime(temperatureData)
            ELSE temperatureData' = temperatureData]_vars

C5_Witness ==
    /\ lastOp.op = "tick"
    /\ Len(temperatureData) >= 2
    /\ seconds < LastTime(temperatureData)

\* C6: a tick of the running sampler sets the elapsed seconds to
\* floor((now - startTime) / 1000) and appends exactly the point (elapsed,
\* current temperature) when elapsed is greater than the last stored time
C6_TickFromClock ==
    [][(TickStep /\ isRunning /\ startTime # null) =>
        LET elapsed == (now - Val(startTime)) \div MsPerSecond
        IN  /\ seconds' = elapsed
            /\ Len(temperatureData) < MaxPoints =>
                  temperatureData' =
                      IF elapsed > LastTime(temperatureData)
                      THEN Append(temperatureData,
                                  [time |-> elapsed, temperature |-> currentTemp])
                      ELSE temperatureData]_vars

C6_Witness ==
    /\ lastOp.op = "tick"
    /\ seconds = 2
    /\ Len(temperatureData) = 2
    /\ LastTime(temperatureData) = 2

Min(a, b) == IF a <= b THEN a ELSE b

\* C4: the series never holds more than 3600 points; a step whose elapsed
\* seconds pass the last stored time does append; and a step that appends
\* drops only points from the front, keeps the others in order, and leaves the
\* point just appended as the last element
C4_SeriesCapped ==
    /\ [](Len(temperatureData) <= MaxPoints)
    /\ [][(mounted /\ mounted' /\ seconds' > LastTime(temperatureData)) =>
            /\ temperatureData' # temperatureData
            /\ LastTime(temperatureData') = seconds']_vars
    /\ [][(mounted /\ temperatureData' # temperatureData) =>
            \E k \in 1 .. 2 :
                LET newLen == Min(Len(temperatureData) + k, MaxPoints)
                    dropped == Len(temperatureData) + k - newLen
                IN  /\ Len(temperatureData') = newLen
                    /\ \A i \in 1 .. newLen - k :
                           temperatureData'[i] = temperatureData[i + dropped]
                    /\ \A i \in newLen - k + 1 .. newLen :
                           temperatureData'[i] =
                               [time |-> seconds', temperature |-> currentTemp']]_vars

C4_Witness ==
    /\ Len(temperatureData) = MaxPoints
    /\ temperatureData[1].time > 0
    /\ temperatureData[MaxPoints] = [time |-> seconds, temperature |-> currentTemp]

\* C7: the current temperature is never negative, whatever sequence of
\* temperature button presses follows a charge temperature above 0
C7_TempNonNegative == currentTemp >= 0

C7_Witness ==
    /\ session # null
    /\ Val(session).chargeTemp = ChargeLow
    /\ Val(session).unit = "C"
    /\ ChargeLow < CelsiusStep
    /\ lastOp.op = "decreaseTemperature"
    /\ pressesLeft = MaxPressesTemp - 2
    /\ currentTemp = 0

\* C8: calculateDTR(fc, total) is 100 * (total - fc) / total and lies in
\* [0, 100] when 0 <= fc <= total and total > 0; it is 0 when fc is null and 0
\* when total is 0
C8_CalculateDTR ==
    call.fn = "calculateDTR" =>
        LET fc == call.firstCrackTime
            total == call.totalTime
        IN  /\ (fc # null /\ total > 0 /\ 0 <= Val(fc) /\ Val(fc) <= total) =>
                  /\ FracEq(call.result, Frac(100 * (total - Val(fc)), total))
                  /\ IsPercentage(call.result)
            /\ fc = null => call.result = Frac(0, 1)
            /\ total = 0 => call.result = Frac(0, 1)

C8_Witness ==
    /\ call.fn = "calculateDTR"
    /\ call.firstCrackTime = Some(60)
    /\ call.totalTime = 300
    /\ FracEq(call.result, Frac(80, 1))

\* a colour string is '#' and six hexadecimal digits
IsHexColor(c) ==
    /\ Len(c) = 7
    /\ c[1] = "#"
    /\ \A i \in 2 .. 7 : digitValue(c[i]) >= 0

\* the red, green and blue channels a colour string denotes
Channels(c) ==
    <<16 * digitValue(c[2]) + digitValue(c[3]),
      16 * digitValue(c[4]) + digitValue(c[5]),
      16 * digitValue(c[6]) + digitValue(c[7])>>

TanStop == <<218, 160, 109>>
BrownStop == <<123, 63, 0>>
BlackStop == <<0, 0, 0>>

\* C11: getDTRColor returns the tan stop for 0, the medium-brown stop for 30
\* and black for 100
C11_ColorStops ==
    call.fn = "getDTRColor" =>
        /\ FracEq(call.dtr, Frac(0, 1)) =>
              IsHexColor(call.result) /\ Channels(call.result) = TanStop
        /\ FracEq(call.dtr, Frac(30, 1)) =>
              IsHexColor(call.result) /\ Channels(call.result) = BrownStop
        /\ FracEq(call.dtr, Frac(100, 1)) =>
              IsHexColor(call.result) /\ Channels(call.result) = BlackStop

C11_Witness ==
    /\ call.fn = "getDTRColor"
    /\ FracEq(call.dtr, Frac(30, 1))
    /\ Channels(call.result) = BrownStop

\* C12: getDTRColor clamps its input: a percentage above 100 gives black, one
\* below 0 gives tan, and every result is '#' and six hexadecimal digits
C12_ColorClamped ==
    call.fn = "getDTRColor" =>
        /\ IsHexColor(call.result)
        /\ FracLeq(Frac(100, 1), call.dtr) => Channels(call.result) = BlackStop
        /\ FracLeq(call.dtr, Frac(0, 1)) => Channels(call.result) = TanStop

\* C13: for percentages p <= q within [0, 100] no channel of getDTRColor(q)
\* is greater than the same channel of getDTRColor(p)
C13_ColorMonotonic ==
    (call.fn = "getDTRColor" /\ IsPercentage(call.dtr)) =>
        \A q \in DTRInputs :
            (FracLeq(call.dtr, q) /\ IsPercentage(q)) =>
                /\ IsHexColor(getDTRColor(q))
                /\ \A ch \in 1 .. 3 :
                       Channels(getDTRColor(q))[ch] <= Channels(call.result)[ch]

C13_Witness ==
    /\ call.fn = "getDTRColor"
    /\ FracEq(call.dtr, Frac(30 * PctScale - 1, PctScale))
    /\ \E ch \in 1 .. 3 :
           Channels(getDTRColor(Frac(30 * PctScale + 1, PctScale)))[ch]
               < Channels(call.result)[ch]

\* C14: restoring the record saved from a session state gives back its series,
\* stage, elapsed seconds, current temperature and first-crack time, with
\* sampling stopped; no stored record says the session is running
C14_RoundTrip ==
    Interactive =>
        LET sess == Val(session)
            text == JSONstringify(SessionState(sess, Recorder))
            restored == loadSession(initialState(sess.chargeTemp),
                                    setItem(<<>>, sessionKeyRef, text),
                                    sessionKeyRef, now)
        IN  /\ restored.temperatureData = temperatureData
            /\ restored.roastStage = roastStage
            /\ restored.seconds = seconds
            /\ restored.currentTemp = currentTemp
            /\ restored.firstCrackTime = firstCrackTime
            /\ restored.isRunning = FALSE
            /\ restored.startTime = null
            /\ \A k \in DOMAIN localStorage :
                   ~JSONparseThrows(localStorage[k]) =>
                       /\ JSONparse(localStorage[k]).isRunning = FALSE
                       /\ JSONparse(localStorage[k]).startTime = null
            /\ (sessionKeyRef \in DOMAIN localStorage
                    /\ ~JSONparseThrows(localStorage[sessionKeyRef])) =>
                   localStorage[sessionKeyRef] = text

C14_Witness ==
    /\ Interactive
    /\ lastOp.op = "mount"
    /\ reloadsLeft < MaxReloads
    /\ roastStage = "firstCrack"
    /\ firstCrackTime # null
    /\ ~isRunning
    /\ startTime = null
    /\ temperatureData = <<[time |-> 0, temperature |-> currentTemp]>>
    /\ currentTemp # Val(session).chargeTemp

\* C15: after a page reload the recorder created for a bean looks the
\* persisted record of that bean up under the key it was saved under
C15_SurvivesReload ==
    (Interactive /\ reloadsLeft < MaxReloads) =>
        \A k \in DOMAIN localStorage :
            k[2] = Val(session).beanName => k = sessionKeyRef

\* C16: a live session whose clock is stopped, in stage ready, started or
\* firstCrack, can be resumed by the operator
C16_CanResume ==
    (Interactive /\ ~isRunning /\ roastStage \in {"ready", "started", "firstCrack"}) =>
        canStart

\* C17: a summary that has been handed over stays as it is until it is
\* discarded by Back to Setup or lost with the page
C17_SummarySnapshot ==
    [][summary # null =>
        \/ summary' = summary
        \/ summary' = null /\ lastOp'.op \in {"backToSetup", "reload"}]_vars

C17_Witness ==
    /\ summary # null
    /\ Len(Val(summary).temperatureData) >= 2
    /\ startTime # null
    /\ now > Val(startTime) + Val(summary).totalTime * MsPerSecond + Quantum

\* C18: in stage ended the clock is stopped, and nothing changes the stage,
\* elapsed seconds, current temperature, first-crack time or series until a
\* new session is constructed
C18_EndedTerminal ==
    /\ [](roastStage = "ended" => (~isRunning /\ intervals = {}))
    /\ [][roastStage = "ended" =>
            \/ UNCHANGED <<roastStage, seconds, currentTemp, firstCrackTime,
                           temperatureData>>
            \/ lastOp' = [op |-> "startSession", stage |-> "ended"]]_vars

C18_Witness ==
    /\ roastStage = "ended"
    /\ lastOp = [op |-> "backToSetup", stage |-> "ended"]
    /\ Len(temperatureData) >= 2

\* C20: a damaged record leaves the session as if there had been no record,
\* and a failed write leaves the session in memory and running
C20_PersistenceNotFatal ==
    [][/\ (isInitialMount /\ ~isInitialMount'
             /\ sessionKeyRef \in DOMAIN localStorage
             /\ JSONparseThrows(localStorage[sessionKeyRef])) =>
            /\ roastStage' = "started"
            /\ isRunning'
            /\ startTime' = Some(now)
       /\ (lastOp' # lastOp /\ lastOp'.op = "saveThrows") =>
            /\ mounted'
            /\ session' = session
            /\ isRunning' = isRunning]_vars

\* name is text without its leading and trailing spaces
IsTrimOf(name, text) ==
    /\ name # <<>>
    /\ name[1] # " " /\ name[Len(name)] # " "
    /\ \E i \in 0 .. Len(text) - Len(name) :
           /\ SubSeq(text, i + 1, i + Len(name)) = name
           /\ \A j \in 1 .. Len(text) :
                  (j <= i \/ j > i + Len(name)) => text[j] = " "

\* the form holds a bean name with a character other than a space, and a
\* charge temperature that parses to a number above 0
ValidForm ==
    /\ \E i \in 1 .. Len(call.beanName) : call.beanName[i] # " "
    /\ parseFloat(call.chargeTemp) # null
    /\ FracLeq(Frac(0, 1), Val(parseFloat(call.chargeTemp)))
    /\ ~FracEq(Frac(0, 1), Val(parseFloat(call.chargeTemp)))

\* C19: the submitted form creates a session exactly when it is valid, with
\* the trimmed name and the parsed temperature; otherwise there is neither a
\* session nor a summary
C19_SetupValidated ==
    (call.fn = "form" /\ lastOp.op # "none") =>
        IF ValidForm
        THEN /\ lastOp.op = "startSession"
             /\ session # null
             /\ IsTrimOf(Val(session).beanName, call.beanName)
             /\ FracEq(Val(session).chargeTemp,
                       toTenths(Val(parseFloat(call.chargeTemp))))
             /\ Val(session).unit = call.unit
             /\ summary = null
        ELSE /\ lastOp.op = "submitRejected"
             /\ session = null
             /\ summary = null
             /\ ~mounted

C19_Witness ==
    /\ call.fn = "form"
    /\ call.beanName = <<" ", "K", " ">>
    /\ call.chargeTemp = <<"1", ".", "1">>
    /\ session # null
    /\ Val(session).beanName = <<"K">>
    /\ FracEq(Val(session).chargeTemp, Frac(11, 1))

C26_RenderAfterCacheManager ==
    /\ [](call.fn = "initializeCacheManager" =>
            /\ call.rendered => call.pc = "resolved"
            /\ call.pc # "rejected")
    /\ (call.fn = "initializeCacheManager" /\ call.pc = "start") ~> call.rendered

C26_Witness ==
    /\ call.fn = "initializeCacheManager"
    /\ call.rendered
    /\ call.storageMode = "denied"
    /\ call.cachesMode = "throws"
    /\ call.workersMode = "throws"
    /\ reloadsLeft < MaxReloads

\* a step that is a press of the + or - temperature button
TempPress ==
    /\ pressesLeft' = pressesLeft - 1
    /\ lastOp'.op \in {"increaseTemperature", "decreaseTemperature"}

\* C22: a press of a temperature button while the timer is running appends
\* the point (elapsed seconds, new temperature) to the series, whatever the
\* time of the last point; a press while it is not running appends nothing
C22_ManualChangeLogged ==
    [][TempPress =>
          IF isRunning
          THEN temperatureData' =
                   keepLast(Append(temperatureData,
                                   [time |-> seconds, temperature |-> currentTemp']))
          ELSE temperatureData' = temperatureData]_vars

\* C23: at most one interval is active; it is the one intervalRef holds, of a
\* mounted recorder whose timer is running from the start time the interval
\* was created with; and with the timer stopped no interval is active, so
\* that clearing again changes nothing
C23_SingleSampler ==
    /\ Cardinality(intervals) <= 1
    /\ \A iv \in intervals :
           /\ mounted
           /\ isRunning
           /\ intervalRef = Some(iv.id)
           /\ revision = "wall-clock" => startTime = Some(iv.startTime)
    /\ ~isRunning =>
           /\ intervals = {}
           /\ clearInterval(intervals, intervalRef) = intervals

C23_Witness ==
    /\ revision = "tick-count"
    /\ lastOp.op = "back"
    /\ ~isRunning
    /\ ~mounted
    /\ timerSeq > 2
    /\ intervals = {}

\* C24: the step that hands the summary over reads the series, the elapsed
\* seconds and the first-crack time in a state in which the interval has
\* already been cleared
C24_SamplerStoppedBeforeRead ==
    [][(summary = null /\ summary' # null) =>
          /\ intervals = {}
          /\ Val(summary').temperatureData = temperatureData
          /\ Val(summary').totalTime = seconds
          /\ Val(summary').firstCrackTime = firstCrackTime]_vars

\* C25: a session starts with the single point (0, charge temperature), and
\* the series of a session, of a summary and of every saved record that
\* parses has at least one point
C25_SeriesNeverEmpty ==
    /\ session # null => Len(temperatureData) >= 1
    /\ (session # null /\ lastOp.op = "startSession") =>
           temperatureData = <<[time |-> 0, temperature |-> Val(session).chargeTemp]>>
    /\ summary # null => Len(Val(summary).temperatureData) >= 1
    /\ \A k \in DOMAIN localStorage :
           ~JSONparseThrows(localStorage[k]) =>
               Len(JSONparse(localStorage[k]).temperatureData) >= 1

C25_Witness ==
    /\ Interactive
    /\ lastOp.op = "mount"
    /\ reloadsLeft < MaxReloads
    /\ roastStage = "started"
    /\ ~isRunning
    /\ Len(temperatureData) >= 1
    /\ temperatureData = JSONparse(localStorage[sessionKeyRef]).temperatureData

\* C27: the final temperature of a summary is the temperature of the last
\* point of its series, and the charge temperature only when the series has
\* no point
C27_FinalTemp ==
    summary # null =>
        LET s == Val(summary)
            n == Len(s.temperatureData)
        IN  finalTemp(s) = IF n > 0 THEN s.temperatureData[n].temperature
                           ELSE s.chargeTemp

\* C28: in a live session of the wall-clock recorder the first-crack time is
\* present exactly in the stages firstCrack and ended, and every summary
\* carries a first-crack time that is at most its total time
C28_FirstCrackWithStage ==
    /\ (revision = "wall-clock" /\ session # null) =>
           (firstCrackTime # null <=> roastStage \in {"firstCrack", "ended"})
    /\ (revision = "wall-clock" /\ summary # null) =>
           /\ Val(summary).firstCrackTime # null
           /\ Val(Val(summary).firstCrackTime) <= Val(summary).totalTime

\* C29: with a clock that only advances, the time of the last point of a live
\* session of the wall-clock recorder is its elapsed seconds, and the total
\* time of a summary is the time of the last point of its series
C29_LastPointIsElapsed ==
    /\ (revision = "wall-clock" /\ session # null) =>
           LastTime(temperatureData) = seconds
    /\ (revision = "wall-clock" /\ summary # null) =>
           LastTime(Val(summary).temperatureData) = Val(summary).totalTime

C29_Witness ==
    /\ revision = "wall-clock"
    /\ summary # null
    /\ Val(summary).totalTime = 2
    /\ Val(summary).temperatureData[Len(Val(summary).temperatureData)].time = 2
    /\ Len(Val(summary).temperatureData) = 2

\* C30: a session and a summary never exist together; startSession leaves a
\* session and no summary, endSession turns an active session into a summary
\* of it in one step and changes nothing without one, and backToSetup leaves
\* neither
C30_SessionOrSummary ==
    /\ [](~(session # null /\ summary # null))
    /\ [][/\ lastOp'.op = "startSession" => (session' # null /\ summary' = null)
          /\ lastOp'.op = "endSession" =>
                 IF session # null
                 THEN /\ session' = null
                      /\ summary' # null
                      /\ Val(summary').beanName = Val(session).beanName
                      /\ Val(summary').chargeTemp = Val(session).chargeTemp
                      /\ Val(summary').unit = Val(session).unit
                 ELSE UNCHANGED <<session, summary>>
          /\ lastOp'.op = "backToSetup" => (session' = null /\ summary' = null)]_vars

C30_Witness ==
    /\ lastOp.op = "endSession"
    /\ session = null
    /\ summary # null
    /\ Val(summary).totalTime = 1
    /\ Val(summary).firstCrackTime = Some(1)

\* C9: calculateDTR returns a percentage between 0 and 100 for every input,
\* a total time smaller than the first-crack time included
C9_DTRIsPercentage ==
    call.fn = "calculateDTR" => IsPercentage(call.result)

\* C10: markFirstCrack at elapsed t1 and end at elapsed t2 hand over a summary
\* with firstCrackTime t1 and totalTime t2, whose DTR is 100 * (t2 - t1) / t2
\* when t1 <= t2 and t2 > 0
C10_EndToEnd ==
    [][mounted =>
        /\ (roastStage = "started" /\ roastStage' = "firstCrack") =>
              firstCrackTime' = Some(seconds)
        /\ firstCrackTime # null => firstCrackTime' = firstCrackTime
        /\ (roastStage = "firstCrack" /\ roastStage' = "ended") =>
              /\ summary' # null
              /\ LET s == Val(summary')
                     t1 == Val(firstCrackTime)
                     t2 == seconds
                 IN  /\ s.firstCrackTime = Some(t1)
                     /\ s.totalTime = t2
                     /\ s.temperatureData = temperatureData
                     /\ (t1 <= t2 /\ t2 > 0) =>
                           FracEq(summaryDTR(s), Frac(100 * (t2 - t1), t2))]_vars

C10_Witness ==
    /\ lastOp = [op |-> "end", stage |-> "firstCrack"]
    /\ summary # null
    /\ Val(summary).firstCrackTime = Some(1)
    /\ Val(summary).totalTime = 2
    /\ FracEq(summaryDTR(Val(summary)), Frac(50, 1))

====
